---- MODULE Spec2Model ----
(***************************************************************************)
(* Run controller of WhatsFlowSender: the App reducer (App.tsx), the      *)
(* automatic runner (components/LiveRunner.tsx), manual mode              *)
(* (components/SessionMode.tsx), the summary (components/SummaryView.tsx) *)
(* and the queue assembly / compose screens that lead into a run.         *)
(*                                                                         *)
(* Time is counted in tenths of a second (the interval period of the      *)
(* runner is 100 ms and it subtracts 0.1 per tick).                        *)
(* React commits a handler's state updates in one render and runs the     *)
(* effects of that render before the next event is handled, so every      *)
(* action below is handler + render + effects, and the three refs of the  *)
(* runner (currentIndexRef, isRunningRef, isWaitingForReturnRef) always   *)
(* equal the state they mirror while the runner is mounted.               *)
(***************************************************************************)
EXTENDS Integers, Sequences, FiniteSets, TLC

\* ---- bounds of the model ----
MaxContacts == 2
MaxIntervals == 1
MaxShares == 1
MaxDelay == 15

\* ---- program constants ----
InitialDelay == 15
DelayStep == 5
MinDelay == 5

Steps == {"input", "compose", "running", "manual", "summary"}
Statuses == {"pending", "sent", "failed", "skipped"}
Attachments == {"none", "shareable", "unshareable"}

\* currentContactIndex of initialState, of CLEAR_CONTACTS and of RESET_RUNNER
ResetIndex == -1

\* payload.id of an UPDATE_CONTACT_STATUS action that carries no id field;
\* no recipient has it as id
Undefined == 0

\* ghost values: no pause is in effect, no recipient was opened
NoPause == ResetIndex - 1
NoOpen == Undefined

\* messageTemplate of initialState (INITIAL_MESSAGE)
InitialMessage ==
  "Hello {name}! \n\nI wanted to reach out regarding our latest update. Let me know if you're interested."

\* the templates the editor is given: the initial one and a typed one
Messages == {InitialMessage, "Hi {name}, check this out..."}

\* localStorage.getItem(STORAGE_KEY) when nothing was saved
NoSnapshot == <<>>

VARIABLES
  step,                 \* AppState.step
  contacts,             \* AppState.contacts
  currentContactIndex,  \* AppState.currentContactIndex
  attachment,           \* AppState.attachment, with what canShare says of it
  delay,                \* AppState.config.delay, in tenths of a second
  fetchPending,         \* a fetchContacts() call has not completed yet
  isRunning,            \* LiveRunner state
  countdown,            \* LiveRunner state, tenths of a second
  isWaitingForReturn,   \* LiveRunner state
  manualTriggerNeeded,  \* LiveRunner state
  intervals,            \* setInterval timers created by the runner, never cleared
  pendingShares,        \* unsettled navigator.share promises of the mounted runner
  lastEvent,            \* ghost: the handler that ran last
  opened,               \* ghost: id of the recipient the last handler opened, or NoOpen
  pausedAt,             \* ghost: position at the last pause(), NoPause otherwise
  awaited,              \* ghost: id of the recipient of the latest open that set the
                        \* waiting flag, NoOpen once the flag has been cleared
  messageTemplate,      \* AppState.messageTemplate
  defaultCountryCode,   \* AppState.defaultCountryCode, a sequence of characters
  storage,              \* the localStorage item of the application, NoSnapshot if none
  num,                  \* the number handed to getFormattedNumber
  formatted,            \* what getFormattedNumber returned for it
  recipientName,        \* the contact.name a message is rendered for
  rendered,             \* the message rendered from messageTemplate for it
  stepRef,              \* stepRef.current of App, read by the backButton listener
  saveTimer             \* the pending timeout of the save effect: TimerLatest when
                        \* its closure holds the current state, TimerStale when it
                        \* holds an older one, NoTimer if none is pending

vars == <<step, contacts, currentContactIndex, attachment, delay, fetchPending,
          isRunning, countdown, isWaitingForReturn, manualTriggerNeeded,
          intervals, pendingShares, lastEvent, opened, pausedAt, awaited,
          messageTemplate, defaultCountryCode, storage, num, formatted,
          recipientName, rendered, stepRef, saveTimer>>

\* what no handler of the run controller writes
settingsVars == <<messageTemplate, defaultCountryCode, storage, num, formatted,
                  recipientName, rendered>>

\* everything but the ghosts
progVars == <<step, contacts, currentContactIndex, attachment, delay, fetchPending,
              isRunning, countdown, isWaitingForReturn, manualTriggerNeeded,
              intervals, pendingShares>>

\* ---- helpers ----
\* mutant: the lower limit is not applied
Max_Unclamped(a, b) == b

Max(a, b) == IF a >= b THEN a ELSE b

\* the i-th entry fetchContacts builds: id is the cleaned number
DeviceContact(i) ==
  [id |-> 5550000 + i, name |-> i, number |-> 5550000 + i,
   status |-> "pending", selected |-> FALSE]

\* arr[idx] of JavaScript: undefined outside 0..length-1
HasAt(cs, idx) == idx >= 0 /\ idx < Len(cs)

\* contacts.filter(c => c.selected)
SelectedSeq(cs) == SelectSeq(cs, LAMBDA c : c.selected)

SelectedCount(cs) == Len(SelectedSeq(cs))

\* ---- reducer (App.tsx) ----
\* mutant: the update also takes the recipient out of the selection
UpdateContactStatus_Deselect(cs, pid, st) ==
  [i \in 1..Len(cs) |->
     IF cs[i].id = pid THEN [cs[i] EXCEPT !.status = st, !.selected = FALSE] ELSE cs[i]]

UpdateContactStatus(cs, pid, st) ==
  [i \in 1..Len(cs) |-> IF cs[i].id = pid THEN [cs[i] EXCEPT !.status = st] ELSE cs[i]]

\* mutant: RESET_RUNNER resets the index only
ResetRunnerContacts_Keep(cs) == cs

ResetRunnerContacts(cs) ==
  [i \in 1..Len(cs) |-> [cs[i] EXCEPT !.status = "pending"]]

ToggleContactSelection(cs, pid) ==
  [i \in 1..Len(cs) |-> IF cs[i].id = pid THEN [cs[i] EXCEPT !.selected = ~cs[i].selected] ELSE cs[i]]

ToggleAllSelection(cs, b) ==
  [i \in 1..Len(cs) |-> [cs[i] EXCEPT !.selected = b]]

\* ---- what the save effect writes (App.tsx) ----
\* the state object as the list of its own properties; config carries the delay
StateEntries ==
  << <<"step", step>>,
     <<"contacts", contacts>>,
     <<"messageTemplate", messageTemplate>>,
     <<"defaultCountryCode", defaultCountryCode>>,
     <<"currentContactIndex", currentContactIndex>>,
     <<"attachment", attachment>>,
     <<"config", [delay |-> delay]>>,
     <<"isLoadingContacts", fetchPending>> >>

\* initialState as such a list
InitialEntries ==
  << <<"step", "input">>,
     <<"contacts", <<>>>>,
     <<"messageTemplate", InitialMessage>>,
     <<"defaultCountryCode", <<>>>>,
     <<"currentContactIndex", ResetIndex>>,
     <<"attachment", "none">>,
     <<"config", [delay |-> InitialDelay]>>,
     <<"isLoadingContacts", FALSE>> >>

\* the properties the save effect takes out of the state
SaveExcluded == {"attachment", "isLoadingContacts"}

\* mutant: the whole state is written
StateToPersist_All(entries) == entries

\* const { attachment, isLoadingContacts, ...stateToPersist } = state
StateToPersist(entries) == SelectSeq(entries, LAMBDA e : e[1] \notin SaveExcluded)

\* no timeout of the save effect is pending
NoTimer == "none"

TimerLatest == "latest"

TimerStale == "stale"

\* what a timeout writes whose closure holds an older state (which one is
\* not recorded)
OlderSnapshot == << <<"older", TRUE>> >>

\* the dependency of the save effect, [state]: a property of the state object
\* has changed in this step
StateChanged ==
  \/ step' # step
  \/ currentContactIndex' # currentContactIndex
  \/ delay' # delay
  \/ fetchPending' # fetchPending
  \/ attachment' # attachment
  \/ messageTemplate' # messageTemplate
  \/ defaultCountryCode' # defaultCountryCode
  \/ contacts' # contacts

\* mutant: the save effect runs after the first render only, so the closure
\* of its timeout keeps the state of that render
ArmSave_Once(timer, changed) ==
  IF timer = TimerLatest /\ changed THEN TimerStale ELSE timer

\* the save effect after a render: when its dependency has changed, the
\* cleanup clears the pending timeout and a new one is armed on the state of
\* this render (for a timeout that held the state before the change, the one
\* that replaces it holds the state after it)
ArmSave(timer, changed) ==
  IF timer # TimerLatest /\ changed THEN TimerLatest ELSE timer


Init ==
  /\ step = "input"
  /\ contacts = <<>>
  /\ currentContactIndex = ResetIndex
  /\ attachment = "none"
  /\ delay = InitialDelay
  /\ fetchPending = TRUE
  /\ isRunning = FALSE
  /\ countdown = 0
  /\ isWaitingForReturn = FALSE
  /\ manualTriggerNeeded = FALSE
  /\ intervals = <<>>
  /\ pendingShares = 0
  /\ lastEvent = "init"
  /\ opened = NoOpen
  /\ pausedAt = NoPause
  /\ awaited = NoOpen
  /\ messageTemplate = InitialMessage
  /\ defaultCountryCode = <<>>
  /\ storage = NoSnapshot
  /\ num = <<>>
  /\ formatted = <<>>
  /\ recipientName = <<>>
  /\ rendered = <<>>
  /\ stepRef = step
  /\ saveTimer = TimerLatest


\* ---- LiveRunner.tsx: trigger effect and attemptOpen ----

\* mutant: the trigger effect does not look at the running flag
TriggerCond_NoRun(cs, idx, run, wait, cd, man) ==
  ~wait /\ HasAt(cs, idx) /\ cd = 0 /\ ~man

\* the guard of the trigger effect, on the values of the render it runs after
TriggerCond(cs, idx, run, wait, cd, man) ==
  run /\ ~wait /\ HasAt(cs, idx) /\ cd = 0 /\ ~man

\* the dependency list of the trigger effect
TriggerDeps(idx, run, wait, cd) == <<idx, run, wait, cd>>

\* mutant: without the share capability the attempt falls back to the text URL
AttemptOutcomes_TextFallback(att) ==
  IF att = "shareable" THEN {"share"} ELSE {"win", "null", "throw"}

\* what one call of attemptOpen can meet: window.open returns a window or
\* null or throws; with an attachment, canShare decides
AttemptOutcomes(att) ==
  IF att = "none" THEN {"win", "null", "throw"}
  ELSE IF att = "shareable" THEN {"share"}
  ELSE {"noshare"}

\* attemptOpen sets isWaitingForReturn only when window.open returned a window
AttemptSetsWaiting(o) == o = "win"

\* mutant: the catch block does not ask for the manual trigger
AttemptSetsManual_NoThrow(o) == o \in {"null", "noshare"}

\* attemptOpen sets manualTriggerNeeded: popup blocked, exception, no share capability
AttemptSetsManual(o) == o \in {"null", "throw", "noshare"}

\* the outcome of a navigator.share promise that rejects: the run is paused
ShareRejectRunning(run) == FALSE

\* the outcome of a navigator.share promise that resolves
ShareResolveWaiting(wait) == TRUE

\* intervals of a runner that unmounts keep ticking; their closure keeps the
\* runner's ref, which is no longer synchronised
Orphaned(ivs, idx) ==
  [i \in 1..Len(ivs) |->
     IF ivs[i].orphan THEN ivs[i] ELSE [ivs[i] EXCEPT !.orphan = TRUE, !.ref = idx]]

RemoveAt(s, i) == [j \in 1..(Len(s) - 1) |-> IF j < i THEN s[j] ELSE s[j + 1]]

\* ---- SessionMode.tsx: the two effects of manual mode ----
ManualInitIndex(mountOrLen, idx, len) ==
  IF mountOrLen /\ idx = -1 /\ len > 0 THEN 0 ELSE idx

\* mutant: the redirect waits for a position past the end of the sequence
ManualRedirect_Past(depsChanged, idx, len) ==
  depsChanged /\ idx >= 0 /\ idx > len

ManualRedirect(depsChanged, idx, len) ==
  depsChanged /\ idx >= 0 /\ idx >= len

\* ---- App.tsx: the effect that copies the step into stepRef ----
\* mutant: the ref keeps the step of the first render
SyncStepRef_Never(ref, s) == ref

SyncStepRef(ref, s) == s

\* ---- render + effects after a handler ----
\* ev: the handler; stepN .. ivN: the values the handler's updates produce;
\* pauseN, openN: ghosts (openN: the recipient the handler itself opened)
Commit(ev, stepN, csN, idxN, runN, waitN, cdN, manN, ivN, pauseN, openN) ==
  LET leaving == step = "running" /\ stepN # "running"
      staying == step = "running" /\ stepN = "running"
      lenN == SelectedCount(csN)
      lenO == SelectedCount(contacts)
      manMount == stepN = "manual" /\ step # "manual"
      idxF == IF stepN = "manual"
              THEN ManualInitIndex(manMount \/ lenN # lenO, idxN, lenN)
              ELSE idxN
      stepF == IF stepN = "manual"
                  /\ ManualRedirect(manMount \/ lenN # lenO \/ idxN # currentContactIndex,
                                    idxN, lenN)
               THEN "summary" ELSE stepN
      fire == staying
              /\ TriggerDeps(idxN, runN, waitN, cdN)
                   # TriggerDeps(currentContactIndex, isRunning, isWaitingForReturn, countdown)
              /\ TriggerCond(csN, idxN, runN, waitN, cdN, manN)
  IN /\ lastEvent' = ev
     /\ UNCHANGED settingsVars
     /\ step' = stepF
     /\ stepRef' = SyncStepRef(stepRef, stepF)
     /\ contacts' = csN
     /\ currentContactIndex' = idxF
     /\ intervals' = IF leaving THEN Orphaned(ivN, currentContactIndex) ELSE ivN
     /\ IF staying
        THEN IF fire
             THEN \E o \in AttemptOutcomes(attachment) :
                    /\ o = "share" => pendingShares < MaxShares
                    /\ isRunning' = runN
                    /\ countdown' = cdN
                    /\ isWaitingForReturn' = (waitN \/ AttemptSetsWaiting(o))
                    /\ manualTriggerNeeded' = (manN \/ AttemptSetsManual(o))
                    /\ pendingShares' = IF o = "share" THEN pendingShares + 1 ELSE pendingShares
                    /\ opened' = csN[idxN + 1].id
                    /\ pausedAt' = pauseN
                    /\ awaited' = IF AttemptSetsWaiting(o) THEN csN[idxN + 1].id
                                  ELSE IF waitN THEN awaited ELSE NoOpen
             ELSE /\ isRunning' = runN
                  /\ countdown' = cdN
                  /\ isWaitingForReturn' = waitN
                  /\ manualTriggerNeeded' = manN
                  /\ UNCHANGED pendingShares
                  /\ opened' = openN
                  /\ pausedAt' = pauseN
                  /\ awaited' = IF waitN /\ openN # NoOpen THEN openN
                                ELSE IF waitN THEN awaited ELSE NoOpen
        ELSE \* the runner is not mounted after this render, or mounts fresh and
             \* its trigger effect runs on the initial flags;
             \* the promises of an unmounted runner settle without any effect
             /\ isRunning' = FALSE
             /\ countdown' = 0
             /\ isWaitingForReturn' = FALSE
             /\ manualTriggerNeeded' = FALSE
             /\ pendingShares' = 0
             /\ opened' = IF stepN = "running" /\ TriggerCond(csN, idxN, FALSE, FALSE, 0, FALSE)
                          THEN csN[idxN + 1].id ELSE NoOpen
             /\ pausedAt' = NoPause
             /\ awaited' = NoOpen
     /\ saveTimer' = ArmSave(saveTimer, StateChanged)

\* a handler that touches only the reducer state
CommitApp(ev, stepN, csN, idxN) ==
  Commit(ev, stepN, csN, idxN, isRunning, isWaitingForReturn, countdown,
         manualTriggerNeeded, intervals, pausedAt, NoOpen)

\* a handler of the mounted runner that touches only its local state
CommitRunner(ev, runN, waitN, cdN, manN, ivN, pauseN, openN) ==
  Commit(ev, step, contacts, currentContactIndex, runN, waitN, cdN, manN, ivN, pauseN, openN)


\* ---- queue assembly (App.tsx fetchContacts, InputView.tsx) ----

\* fetchContacts completes with n usable numbers on the device
FetchDone(n) ==
  /\ fetchPending
  /\ fetchPending' = FALSE
  /\ UNCHANGED <<attachment, delay>>
  /\ CommitApp(IF n > 0 THEN "import" ELSE "noContacts", step,
               IF n > 0 THEN [i \in 1..n |-> DeviceContact(i)] ELSE contacts,
               currentContactIndex)

RetryLoad ==
  /\ step = "input"
  /\ contacts = <<>>
  /\ ~fetchPending
  /\ fetchPending' = TRUE
  /\ UNCHANGED <<attachment, delay>>
  /\ CommitApp("retryLoad", step, contacts, currentContactIndex)

ToggleSelection(i) ==
  /\ step = "input"
  /\ i \in 1..Len(contacts)
  /\ UNCHANGED <<attachment, delay, fetchPending>>
  /\ CommitApp("toggleSelection", step,
               ToggleContactSelection(contacts, contacts[i].id), currentContactIndex)

ToggleSelectAll ==
  /\ step = "input"
  /\ Len(contacts) > 0
  /\ UNCHANGED <<attachment, delay, fetchPending>>
  /\ CommitApp("toggleAll", step,
               ToggleAllSelection(contacts, ~(SelectedCount(contacts) = Len(contacts))),
               currentContactIndex)

InputNext ==
  /\ step = "input"
  /\ SelectedCount(contacts) > 0
  /\ UNCHANGED <<attachment, delay, fetchPending>>
  /\ CommitApp("toCompose", "compose", contacts, currentContactIndex)

\* ---- compose screen ----
\* isValid of ComposeView; the message template is the non-blank INITIAL_MESSAGE
IsValid == SelectedCount(contacts) > 0

SetAttachment(a) ==
  /\ step = "compose"
  /\ attachment' = a
  /\ UNCHANGED <<delay, fetchPending>>
  /\ CommitApp("setAttachment", step, contacts, currentContactIndex)

GoManual ==
  /\ step = "compose"
  /\ IsValid
  /\ UNCHANGED <<attachment, delay, fetchPending>>
  /\ CommitApp("goManual", "manual", contacts, currentContactIndex)

GoAuto ==
  /\ step = "compose"
  /\ IsValid
  /\ UNCHANGED <<attachment, delay, fetchPending>>
  /\ CommitApp("goAuto", "running", contacts, currentContactIndex)

\* ---- handleBack (App.tsx), confirmed by the user where it asks ----
BackTarget(s) ==
  IF s = "compose" THEN "input"
  ELSE IF s \in {"running", "manual"} THEN "compose"
  ELSE IF s = "summary" THEN "input"
  ELSE s

HandleBack ==
  /\ step # "input"
  /\ UNCHANGED <<attachment, delay, fetchPending>>
  /\ CommitApp("back", BackTarget(step), contacts, currentContactIndex)

\* ---- the backButton listener (App.tsx), native platform ----
HardwareBackTarget(s) ==
  IF s = "compose" THEN "input"
  ELSE IF s \in {"running", "manual"} THEN "compose"
  ELSE IF s = "summary" THEN "input"
  ELSE s

\* ok: the answer to the confirm() of a running session
HardwareBack(ok) ==
  /\ ~ok => stepRef \in {"running", "manual"}
  /\ UNCHANGED <<attachment, delay, fetchPending>>
  /\ CommitApp(IF ok THEN "hardwareBack" ELSE "hardwareBackDeclined",
               IF ok /\ HardwareBackTarget(stepRef) # stepRef
               THEN HardwareBackTarget(stepRef) ELSE step,
               contacts, currentContactIndex)

\* ---- automatic runner (LiveRunner.tsx) ----

\* mutant: the handler keeps the delay of the render that mounted the runner
CountdownStart_Mount(d) == InitialDelay

\* the value a countdown starts from
CountdownStart(d) == d

\* mutant: the handler forgets to test isWaitingForReturnRef
VisibilityGuard_NoWaiting(visible) ==
  visible /\ isRunning

\* the condition under which handleVisibilityChange acts
VisibilityGuard(visible) ==
  visible /\ isWaitingForReturn /\ isRunning

\* payload.id of the status update the runner dispatches: the payload is
\* { index, status } and has no id
RunnerStatusPayloadId(cs, idx) == Undefined

\* 'timer -= 0.1' is IEEE-754 double arithmetic: after 10*s subtractions from
\* s seconds the variable holds a residue, not 0.  For the multiples of 0.5 s
\* up to 20 s the residue is positive for 0.5 s, 1 s and from 5 s on (so
\* 'timer <= 0' is false at that tick) and negative or zero otherwise.
ResiduePositive(d) == d \in {5, 10} \/ d >= 50

\* timer: the tenths toFixed(1) shows; late: the sign of the residue
NewInterval(d, total) ==
  [timer |-> CountdownStart(d), late |-> ResiduePositive(CountdownStart(d)),
   total |-> total, orphan |-> FALSE, ref |-> 0]

\* visibilitychange of the document; the listener exists while the runner is
\* mounted; cap: the number of timers the model follows
VisibilityChangeUpTo(visible, cap) ==
  /\ UNCHANGED <<attachment, delay, fetchPending>>
  /\ IF step = "running" /\ VisibilityGuard(visible)
     THEN /\ Len(intervals) < cap
          /\ Commit("foreground", step,
                    UpdateContactStatus(contacts,
                                        RunnerStatusPayloadId(contacts, currentContactIndex),
                                        "sent"),
                    currentContactIndex,
                    isRunning, FALSE, CountdownStart(delay), FALSE,
                    Append(intervals, NewInterval(delay, Len(contacts))),
                    pausedAt, NoOpen)
     ELSE CommitApp(IF visible THEN "foreground" ELSE "background",
                    step, contacts, currentContactIndex)

VisibilityChange(visible) == VisibilityChangeUpTo(visible, MaxIntervals)

\* what pause() does to the intervals: toggleRun does not call clearInterval
PauseIntervals(ivs) == ivs

\* toggleRun: pause() when running, start() otherwise
ToggleRun ==
  /\ step = "running"
  /\ UNCHANGED <<attachment, delay, fetchPending>>
  /\ IF isRunning
     THEN CommitRunner("pause", FALSE, FALSE, 0, FALSE, PauseIntervals(intervals),
                       currentContactIndex, NoOpen)
     ELSE CommitRunner("start", TRUE, isWaitingForReturn, countdown,
                       manualTriggerNeeded, intervals, NoPause, NoOpen)

\* the index the completion of interval iv reads from currentIndexRef
IntervalRef(iv) == IF iv.orphan THEN iv.ref ELSE currentContactIndex

\* the completion test of the interval callback, 'timer <= 0' on the double
IntervalDone(t, late) == t < 0 \/ (t = 0 /\ ~late)

\* one firing of the callback of interval i
Tick(i) ==
  /\ i \in 1..Len(intervals)
  /\ UNCHANGED <<attachment, delay, fetchPending>>
  /\ LET iv == intervals[i]
         t == iv.timer - 1
         shown == IF iv.orphan THEN countdown ELSE Max(0, t)
     IN IF ~IntervalDone(t, iv.late)
        THEN CommitRunner("tick", isRunning, isWaitingForReturn, shown, manualTriggerNeeded,
                          [intervals EXCEPT ![i].timer = t], pausedAt, NoOpen)
        ELSE IF IntervalRef(iv) + 1 < iv.total
             THEN Commit("countdownComplete", step, contacts, currentContactIndex + 1,
                         isRunning, isWaitingForReturn,
                         IF iv.orphan THEN countdown ELSE 0,
                         manualTriggerNeeded, RemoveAt(intervals, i), pausedAt, NoOpen)
             ELSE Commit("countdownComplete", "summary", contacts, currentContactIndex,
                         FALSE, isWaitingForReturn, 0,
                         manualTriggerNeeded, RemoveAt(intervals, i), pausedAt, NoOpen)

\* a navigator.share promise of the mounted runner resolves
ShareResolve ==
  /\ pendingShares > 0
  /\ UNCHANGED <<attachment, delay, fetchPending>>
  /\ pendingShares' = pendingShares - 1
  /\ lastEvent' = "shareResolve"
  /\ UNCHANGED settingsVars
  /\ UNCHANGED <<stepRef, saveTimer>>
  /\ opened' = NoOpen
  /\ UNCHANGED <<step, contacts, currentContactIndex, intervals, pausedAt, awaited,
                 isRunning, countdown, manualTriggerNeeded>>
  /\ isWaitingForReturn' = ShareResolveWaiting(isWaitingForReturn)

\* a navigator.share promise of the mounted runner rejects
ShareReject ==
  /\ pendingShares > 0
  /\ UNCHANGED <<attachment, delay, fetchPending>>
  /\ pendingShares' = pendingShares - 1
  /\ lastEvent' = "shareReject"
  /\ UNCHANGED settingsVars
  /\ UNCHANGED <<stepRef, saveTimer>>
  /\ opened' = NoOpen
  /\ UNCHANGED <<step, contacts, currentContactIndex, intervals, pausedAt, awaited,
                 isWaitingForReturn, countdown, manualTriggerNeeded>>
  /\ isRunning' = ShareRejectRunning(isRunning)

\* mutant: the button is rendered whatever the flag says
ManualButtonShown_Always == step = "running"

\* the 'Open WhatsApp Manually' button is rendered
ManualButtonShown == step = "running" /\ manualTriggerNeeded

ManualOpen ==
  /\ ManualButtonShown
  /\ UNCHANGED <<attachment, delay, fetchPending>>
  /\ IF HasAt(contacts, currentContactIndex)
     THEN CommitRunner("manualOpen", TRUE, TRUE, countdown, FALSE, intervals, NoPause,
                       contacts[currentContactIndex + 1].id)
     ELSE CommitRunner("manualOpen", isRunning, isWaitingForReturn, countdown,
                       manualTriggerNeeded, intervals, pausedAt, NoOpen)

DelayMinus ==
  /\ step = "running"
  /\ delay' = Max(MinDelay, delay - DelayStep)
  /\ UNCHANGED <<attachment, fetchPending>>
  /\ CommitApp("delayMinus", step, contacts, currentContactIndex)

\* the '+' button, while the delay stays within cap
DelayPlusUpTo(cap) ==
  /\ step = "running"
  /\ delay + DelayStep <= cap
  /\ delay' = delay + DelayStep
  /\ UNCHANGED <<attachment, fetchPending>>
  /\ CommitApp("delayPlus", step, contacts, currentContactIndex)

DelayPlus == DelayPlusUpTo(MaxDelay)


\* ---- manual mode (SessionMode.tsx) ----

\* currentContact: the entry of the selected sequence at the position
HasCurrentManual == HasAt(SelectedSeq(contacts), currentContactIndex)

\* next(status): 'Skip' and 'Mark Sent'
ManualNext(st) ==
  /\ step = "manual"
  /\ HasCurrentManual
  /\ UNCHANGED <<attachment, delay, fetchPending>>
  /\ LET cur == SelectedSeq(contacts)[currentContactIndex + 1]
         csN == UpdateContactStatus(contacts, cur.id, st)
     IN IF currentContactIndex + 1 < SelectedCount(contacts)
        THEN CommitApp(st, "manual", csN, currentContactIndex + 1)
        ELSE CommitApp(st, "summary", csN, currentContactIndex)

\* mutant: the queue list has a row for every recipient
JumpTargets_All(cs) == 0..(Len(cs) - 1)

\* the rows of the queue list, activeContacts.map((c, idx) => ...)
JumpTargets(cs) == 0..(SelectedCount(cs) - 1)

\* jumpTo(idx) from a row of the queue list
JumpTo(idx) ==
  /\ step = "manual"
  /\ idx \in JumpTargets(contacts)
  /\ UNCHANGED <<attachment, delay, fetchPending>>
  /\ CommitApp("jumpTo", "manual", contacts, idx)

\* ---- summary (SummaryView.tsx) ----

\* 'Restart Same List': RESET_RUNNER, then SET_STEP running
Restart ==
  /\ step = "summary"
  /\ UNCHANGED <<attachment, delay, fetchPending>>
  /\ CommitApp("reset", "running", ResetRunnerContacts(contacts), ResetIndex)

\* 'New Campaign': CLEAR_CONTACTS, then SET_STEP input
NewCampaign ==
  /\ step = "summary"
  /\ UNCHANGED <<attachment, delay, fetchPending>>
  /\ CommitApp("clear", "input", <<>>, ResetIndex)

Next ==
  \/ \E n \in 0..MaxContacts : FetchDone(n)
  \/ RetryLoad
  \/ \E i \in 1..MaxContacts : ToggleSelection(i)
  \/ ToggleSelectAll
  \/ InputNext
  \/ \E a \in Attachments : SetAttachment(a)
  \/ GoManual
  \/ GoAuto
  \/ HandleBack
  \/ \E v \in BOOLEAN : VisibilityChange(v)
  \/ ToggleRun
  \/ \E i \in 1..MaxIntervals : Tick(i)
  \/ ShareResolve
  \/ ShareReject
  \/ ManualOpen
  \/ DelayMinus
  \/ DelayPlus
  \/ \E st \in {"skipped", "sent"} : ManualNext(st)
  \/ \E idx \in 0..(MaxContacts - 1) : JumpTo(idx)
  \/ Restart
  \/ NewCampaign

Spec == Init /\ [][Next]_vars

\* ---- a campaign without attachment ----
\* the whole application with the attachment left unset: no share sheet, every
\* message goes out through a wa.me window
NextText ==
  \/ \E n \in 0..MaxContacts : FetchDone(n)
  \/ RetryLoad
  \/ \E i \in 1..MaxContacts : ToggleSelection(i)
  \/ ToggleSelectAll
  \/ InputNext
  \/ GoManual
  \/ GoAuto
  \/ HandleBack
  \/ \E v \in BOOLEAN : VisibilityChange(v)
  \/ ToggleRun
  \/ \E i \in 1..MaxIntervals : Tick(i)
  \/ ManualOpen
  \/ DelayMinus
  \/ DelayPlus
  \/ \E st \in {"skipped", "sent"} : ManualNext(st)
  \/ \E idx \in 0..(MaxContacts - 1) : JumpTo(idx)
  \/ Restart
  \/ NewCampaign

SpecText == Init /\ [][NextText]_vars

\* ---- the runner in isolation ----
\* A runner that has just been mounted from the compose screen on a queue of
\* n selected recipients.  Position -1 is the fresh application; a position
\* >= 0 is what entering and leaving manual mode before leaves behind.
InitRunner ==
  /\ step = "running"
  /\ \E n \in 1..MaxContacts :
       /\ contacts = [i \in 1..n |-> [DeviceContact(i) EXCEPT !.selected = TRUE]]
       /\ currentContactIndex \in -1..(n - 1)
  /\ attachment \in Attachments
  /\ delay = InitialDelay
  /\ fetchPending = FALSE
  /\ isRunning = FALSE
  /\ countdown = 0
  /\ isWaitingForReturn = FALSE
  /\ manualTriggerNeeded = FALSE
  /\ intervals = <<>>
  /\ pendingShares = 0
  /\ lastEvent = "goAuto"
  /\ opened = NoOpen
  /\ pausedAt = NoPause
  /\ awaited = NoOpen
  /\ messageTemplate = InitialMessage
  /\ defaultCountryCode = <<>>
  /\ storage = NoSnapshot
  /\ num = <<>>
  /\ formatted = <<>>
  /\ recipientName = <<>>
  /\ rendered = <<>>
  /\ stepRef = step
  /\ saveTimer = TimerLatest

NextRunner ==
  \/ \E v \in BOOLEAN : VisibilityChange(v)
  \/ ToggleRun
  \/ \E i \in 1..MaxIntervals : Tick(i)
  \/ ShareResolve
  \/ ShareReject
  \/ ManualOpen
  \/ DelayMinus
  \/ DelayPlus
  \/ HandleBack
  \/ GoAuto
  \/ Restart

SpecRunner == InitRunner /\ [][NextRunner]_vars

\* ---- a campaign run by hand ----
\* queue assembly, compose, manual mode and the summary; the automatic
\* runner is mounted by 'Restart Same List' but never started
NextManual ==
  \/ \E n \in 0..MaxContacts : FetchDone(n)
  \/ RetryLoad
  \/ \E i \in 1..MaxContacts : ToggleSelection(i)
  \/ ToggleSelectAll
  \/ InputNext
  \/ \E a \in Attachments : SetAttachment(a)
  \/ GoManual
  \/ HandleBack
  \/ \E st \in {"skipped", "sent"} : ManualNext(st)
  \/ \E idx \in 0..(MaxContacts - 1) : JumpTo(idx)
  \/ Restart
  \/ NewCampaign

SpecManual == Init /\ [][NextManual]_vars

\* ---- a campaign run by hand on a device with a back button ----
NextBack ==
  \/ NextManual
  \/ GoAuto
  \/ \E ok \in BOOLEAN : HardwareBack(ok)

SpecBack == Init /\ [][NextBack]_vars

\* ---- an automatic run that is never paused ----
StartRun == ~isRunning /\ ToggleRun

Foreground == VisibilityChange(TRUE)

AnyTick == \E i \in 1..MaxIntervals : Tick(i)

NextUninterrupted ==
  \/ StartRun
  \/ Foreground
  \/ AnyTick
  \/ ShareResolve
  \/ ShareReject
  \/ ManualOpen

\* the user starts and returns, timers fire, promises settle
SpecUninterrupted ==
  /\ InitRunner
  /\ [][NextUninterrupted]_vars
  /\ WF_vars(StartRun)
  /\ WF_vars(Foreground)
  /\ WF_vars(AnyTick)
  /\ WF_vars(ShareResolve)
  /\ WF_vars(ManualOpen)

\* ---- utils/phoneUtils.ts ----
\* a string is the sequence of its characters
Digits == {"0", "1", "2", "3", "4", "5", "6", "7", "8", "9"}

\* the length up to which a number is taken for a local one
LocalMaxLen == 10

\* num.replace(/[^0-9]/g, "")
Clean(s) == SelectSeq(s, LAMBDA ch : ch \in Digits)

\* String.prototype.startsWith
StartsWith(s, p) == Len(p) <= Len(s) /\ SubSeq(s, 1, Len(p)) = p

\* if (clean.startsWith("0")) clean = clean.substring(1)
StripLeadingZero(s) == IF StartsWith(s, <<"0">>) THEN Tail(s) ELSE s

\* mutant: the heuristic measures what follows the country code
IsLocalLength_Rest(clean, cc) == Len(clean) - Len(cc) <= LocalMaxLen

\* the heuristic for a number that starts with the country code
IsLocalLength(clean, cc) == Len(clean) <= LocalMaxLen

\* mutant: the country code is looked for before the leading 0 is removed
getFormattedNumber_ZeroLast(n, cc) ==
  LET clean == Clean(n)
  IN IF clean = <<>> THEN <<>>
     ELSE IF cc # <<>>
          THEN IF StartsWith(clean, cc)
               THEN IF IsLocalLength(clean, cc) THEN cc \o clean ELSE clean
               ELSE cc \o StripLeadingZero(clean)
          ELSE clean

getFormattedNumber(n, cc) ==
  LET clean == Clean(n)
  IN IF clean = <<>> THEN <<>>
     ELSE IF cc # <<>>
          THEN LET stripped == StripLeadingZero(clean)
               IN IF StartsWith(stripped, cc)
                  THEN IF IsLocalLength(stripped, cc) THEN cc \o stripped ELSE stripped
                  ELSE cc \o stripped
          ELSE clean

\* the address attemptOpen and manualOpen of the runner put into the URL
RunnerAddress(n) == Clean(n)

\* getFormattedNumber of SessionMode, the address of 'send text'
SessionAddress(n, cc) ==
  LET clean == Clean(n)
  IN IF cc # <<>> /\ ~StartsWith(clean, cc)
     THEN cc \o StripLeadingZero(clean)
     ELSE clean

\* ---- getFormattedNumber on its own ----
MaxHead == 3
MaxFill == 12

\* the characters a number begins with, and the digit it goes on with
HeadChars == {"0", "1", "9", "+"}
FillChar == "5"

\* the numbers of the documented examples
ExampleNumbers ==
  { <<"0", "9", "8", "7", "6", "5", "4", "3", "2", "1">>,
    <<"9", "1", "1", "2", "3", "4", "5", "6", "7", "8", "9", "0", "1", "2", "3">>,
    <<"1", "2", "3", "4", "5", "6", "7", "8", "9", "0">> }

PhoneInputs ==
  { h \o [i \in 1..k |-> FillChar] :
      h \in UNION { [1..m -> HeadChars] : m \in 0..MaxHead }, k \in 0..MaxFill }
    \cup ExampleNumbers

\* "" (initialState), "1" and "91" (the examples of AppState.defaultCountryCode)
CountryCodes == { <<>>, <<"1">>, <<"9", "1">> }

InitPhone ==
  /\ step = "input"
  /\ contacts = <<>>
  /\ currentContactIndex = ResetIndex
  /\ attachment = "none"
  /\ delay = InitialDelay
  /\ fetchPending = TRUE
  /\ isRunning = FALSE
  /\ countdown = 0
  /\ isWaitingForReturn = FALSE
  /\ manualTriggerNeeded = FALSE
  /\ intervals = <<>>
  /\ pendingShares = 0
  /\ lastEvent = "init"
  /\ opened = NoOpen
  /\ pausedAt = NoPause
  /\ awaited = NoOpen
  /\ messageTemplate = InitialMessage
  /\ defaultCountryCode \in CountryCodes
  /\ storage = NoSnapshot
  /\ num \in PhoneInputs
  /\ formatted = <<>>
  /\ recipientName = <<>>
  /\ rendered = <<>>
  /\ stepRef = step
  /\ saveTimer = TimerLatest

\* one call getFormattedNumber(num, defaultCountryCode)
FormatNumber ==
  /\ lastEvent = "init"
  /\ lastEvent' = "format"
  /\ formatted' = getFormattedNumber(num, defaultCountryCode)
  /\ UNCHANGED <<step, contacts, currentContactIndex, attachment, delay, fetchPending,
                 isRunning, countdown, isWaitingForReturn, manualTriggerNeeded,
                 intervals, pendingShares, opened, pausedAt, awaited,
                 messageTemplate, defaultCountryCode, storage, num,
                 recipientName, rendered, stepRef, saveTimer>>

NextPhone == FormatNumber

SpecPhone == InitPhone /\ [][NextPhone]_vars

\* ---- persistence (App.tsx) ----
\* the properties LOAD_STATE takes out of the payload
LoadExcluded == {"attachment", "isLoadingContacts", "permissionStatus"}

HasKey(payload, key) == \E i \in 1..Len(payload) : payload[i][1] = key

GetKey(payload, key) == payload[CHOOSE i \in 1..Len(payload) : payload[i][1] = key][2]

\* { ...state, ...rest }[key], cur being state[key]
Loaded(payload, key, cur) ==
  IF key \notin LoadExcluded /\ HasKey(payload, key) THEN GetKey(payload, key) ELSE cur

\* { ...state.config, ...(payload.config || {}) }.delay
LoadedDelay(payload, cur) ==
  IF HasKey(payload, "config") THEN GetKey(payload, "config").delay ELSE cur

\* payload.defaultCountryCode || ""
LoadedCountryCode(payload) ==
  IF HasKey(payload, "defaultCountryCode") THEN GetKey(payload, "defaultCountryCode") ELSE <<>>

\* the timeout of the save effect fires
SaveState ==
  /\ saveTimer # NoTimer
  /\ lastEvent' = "save"
  /\ storage' = IF saveTimer = TimerLatest THEN StateToPersist(StateEntries)
                ELSE OlderSnapshot
  /\ saveTimer' = NoTimer
  /\ opened' = NoOpen
  /\ UNCHANGED <<step, contacts, currentContactIndex, attachment, delay, fetchPending,
                 isRunning, countdown, isWaitingForReturn, manualTriggerNeeded,
                 intervals, pendingShares, pausedAt, awaited,
                 messageTemplate, defaultCountryCode, num, formatted,
                 recipientName, rendered, stepRef>>

\* the application is started again: initialState, the load effect with
\* LOAD_STATE when an item is stored, the import on mount, and the effects
\* of the screen that is rendered
Reload ==
  LET saved == storage # NoSnapshot
      stepL == IF saved THEN Loaded(storage, "step", "input") ELSE "input"
      csL == IF saved THEN Loaded(storage, "contacts", <<>>) ELSE <<>>
      idxL == IF saved THEN Loaded(storage, "currentContactIndex", ResetIndex) ELSE ResetIndex
      lenL == SelectedCount(csL)
  IN /\ lastEvent' = "reload"
     /\ step' = IF stepL = "manual" /\ ManualRedirect(TRUE, idxL, lenL) THEN "summary" ELSE stepL
     /\ contacts' = csL
     /\ currentContactIndex' = IF stepL = "manual" THEN ManualInitIndex(TRUE, idxL, lenL) ELSE idxL
     /\ attachment' = "none"
     /\ delay' = IF saved THEN LoadedDelay(storage, InitialDelay) ELSE InitialDelay
     /\ messageTemplate' = IF saved THEN Loaded(storage, "messageTemplate", InitialMessage)
                           ELSE InitialMessage
     /\ defaultCountryCode' = IF saved THEN LoadedCountryCode(storage) ELSE <<>>
     /\ fetchPending' = TRUE
     /\ isRunning' = FALSE
     /\ countdown' = 0
     /\ isWaitingForReturn' = FALSE
     /\ manualTriggerNeeded' = FALSE
     /\ intervals' = <<>>
     /\ pendingShares' = 0
     /\ opened' = IF stepL = "running" /\ TriggerCond(csL, idxL, FALSE, FALSE, 0, FALSE)
                  THEN csL[idxL + 1].id ELSE NoOpen
     /\ pausedAt' = NoPause
     /\ awaited' = NoOpen
     /\ stepRef' = step'
     /\ UNCHANGED <<storage, num, formatted, recipientName, rendered>>
     /\ saveTimer' = ArmSave(TimerLatest, StateEntries' # InitialEntries)

\* the template editor of the compose screen
SetMessage(m) ==
  /\ step = "compose"
  /\ m # messageTemplate
  /\ lastEvent' = "setMessage"
  /\ messageTemplate' = m
  /\ opened' = NoOpen
  /\ UNCHANGED <<step, contacts, currentContactIndex, attachment, delay, fetchPending,
                 isRunning, countdown, isWaitingForReturn, manualTriggerNeeded,
                 intervals, pendingShares, pausedAt, awaited,
                 defaultCountryCode, storage, num, formatted,
                 recipientName, rendered, stepRef>>
  /\ saveTimer' = ArmSave(saveTimer, StateChanged)

\* the statuses the screens give a recipient
GivenStatuses == {"pending", "sent", "skipped"}

\* any state of the application outside a started automatic run
InitPersist ==
  /\ step \in Steps
  /\ \E n \in 0..MaxContacts :
       /\ \E st \in [1..n -> GivenStatuses], sel \in [1..n -> BOOLEAN] :
            contacts = [i \in 1..n |->
                          [DeviceContact(i) EXCEPT !.status = st[i], !.selected = sel[i]]]
       /\ currentContactIndex \in -1..(n - 1)
  /\ attachment \in Attachments
  /\ delay \in {MinDelay, InitialDelay}
  /\ fetchPending \in BOOLEAN
  /\ isRunning = FALSE
  /\ countdown = 0
  /\ isWaitingForReturn = FALSE
  /\ manualTriggerNeeded = FALSE
  /\ intervals = <<>>
  /\ pendingShares = 0
  /\ lastEvent = "init"
  /\ opened = NoOpen
  /\ pausedAt = NoPause
  /\ awaited = NoOpen
  /\ messageTemplate \in Messages
  /\ defaultCountryCode = <<>>
  /\ storage = NoSnapshot
  /\ num = <<>>
  /\ formatted = <<>>
  /\ recipientName = <<>>
  /\ rendered = <<>>
  /\ stepRef = step
  /\ saveTimer = TimerLatest

NextPersist ==
  \/ SaveState
  \/ Reload
  \/ \E m \in Messages : SetMessage(m)

SpecPersist == InitPersist /\ [][NextPersist]_vars

\* ---- an automatic run with pauses, one timer more than elsewhere ----
NextOverlap ==
  \/ \E v \in BOOLEAN : VisibilityChangeUpTo(v, MaxIntervals + 1)
  \/ ToggleRun
  \/ \E i \in 1..(MaxIntervals + 1) : Tick(i)
  \/ ShareResolve
  \/ ShareReject
  \/ ManualOpen

SpecOverlap == InitRunner /\ [][NextOverlap]_vars

\* ---- an automatic run that is never paused, at any delay ----
NextAutoRun ==
  \/ NextUninterrupted
  \/ DelayMinus
  \/ DelayPlus

SpecAutoRun == InitRunner /\ [][NextAutoRun]_vars

\* ---- the runner mounted from the compose screen or by a restart ----
NextMount ==
  \/ SaveState
  \/ Reload
  \/ \E n \in 0..MaxContacts : FetchDone(n)
  \/ \E v \in BOOLEAN : VisibilityChange(v)
  \/ ToggleRun
  \/ \E i \in 1..MaxIntervals : Tick(i)
  \/ ShareResolve
  \/ ShareReject
  \/ ManualOpen

SpecMount == InitRunner /\ [][NextMount]_vars

\* ---- SummaryView.tsx: the two counts ----
SummarySent(cs) == Cardinality({i \in 1..Len(cs) : cs[i].status = "sent"})

SummaryFailedSkip(cs) == Len(cs) - SummarySent(cs)

\* ---- the delay buttons of a mounted runner, over twice the range ----
NextDelay ==
  \/ DelayMinus
  \/ DelayPlusUpTo(MaxDelay + MaxDelay)

SpecDelay == InitRunner /\ [][NextDelay]_vars

\* ---- the application restarted with a saved campaign ----
\* the import on mount is pending only after a restart
InitRestart == InitPersist /\ ~fetchPending

NextRestart ==
  \/ SaveState
  \/ Reload
  \/ \E n \in 0..MaxContacts : FetchDone(n)

SpecRestart == InitRestart /\ [][NextRestart]_vars

\* ---- rendering a message (attemptOpen, handleSendText) ----
\* the token of the pattern /{name}/g
Placeholder == <<"{", "n", "a", "m", "e", "}">>

\* the replacement string of String.prototype.replace is a pattern of its
\* own: $$ stands for $, $& for the match, $` and $' for what precedes and
\* follows the match
RECURSIVE Expand(_, _, _)
Expand(nm, before, after) ==
  IF nm = <<>> THEN <<>>
  ELSE IF Len(nm) >= 2 /\ nm[1] = "$" /\ nm[2] = "$"
       THEN <<"$">> \o Expand(Tail(Tail(nm)), before, after)
  ELSE IF Len(nm) >= 2 /\ nm[1] = "$" /\ nm[2] = "&"
       THEN Placeholder \o Expand(Tail(Tail(nm)), before, after)
  ELSE IF Len(nm) >= 2 /\ nm[1] = "$" /\ nm[2] = "`"
       THEN before \o Expand(Tail(Tail(nm)), before, after)
  ELSE IF Len(nm) >= 2 /\ nm[1] = "$" /\ nm[2] = "'"
       THEN after \o Expand(Tail(Tail(nm)), before, after)
  ELSE <<Head(nm)>> \o Expand(Tail(nm), before, after)

\* str.replace(/{name}/g, nm), before being the part of str already scanned
RECURSIVE ReplaceAll(_, _, _)
ReplaceAll(before, rest, nm) ==
  IF rest = <<>> THEN <<>>
  ELSE IF StartsWith(rest, Placeholder)
       THEN LET after == SubSeq(rest, Len(Placeholder) + 1, Len(rest))
            IN Expand(nm, before, after) \o ReplaceAll(before \o Placeholder, after, nm)
       ELSE <<Head(rest)>> \o ReplaceAll(before \o <<Head(rest)>>, Tail(rest), nm)

\* state.messageTemplate.replace(/{name}/g, contact.name)
RenderMessage(template, nm) == ReplaceAll(<<>>, template, nm)

\* the text in which every occurrence of the token is the name itself
RECURSIVE Substitute(_, _)
Substitute(template, nm) ==
  IF template = <<>> THEN <<>>
  ELSE IF StartsWith(template, Placeholder)
       THEN nm \o Substitute(SubSeq(template, Len(Placeholder) + 1, Len(template)), nm)
       ELSE <<Head(template)>> \o Substitute(Tail(template), nm)

MaxPieces == 3
MaxName == 2

\* what a template is put together from: the token, plain text, a token
\* without its closing brace, a closing brace
TemplatePieces ==
  { Placeholder, <<"H", "i", " ">>, <<"{", "n", "a", "m", "e">>, <<"}">> }

RECURSIVE Concat(_)
Concat(ps) == IF ps = <<>> THEN <<>> ELSE Head(ps) \o Concat(Tail(ps))

Templates ==
  { Concat(ps) : ps \in UNION { [1..k -> TemplatePieces] : k \in 0..MaxPieces } }

\* the characters of a display name
NameChars == {"A", "$", "&", "'"}

Names == UNION { [1..k -> NameChars] : k \in 0..MaxName }

InitRender ==
  /\ step = "input"
  /\ contacts = <<>>
  /\ currentContactIndex = ResetIndex
  /\ attachment = "none"
  /\ delay = InitialDelay
  /\ fetchPending = TRUE
  /\ isRunning = FALSE
  /\ countdown = 0
  /\ isWaitingForReturn = FALSE
  /\ manualTriggerNeeded = FALSE
  /\ intervals = <<>>
  /\ pendingShares = 0
  /\ lastEvent = "init"
  /\ opened = NoOpen
  /\ pausedAt = NoPause
  /\ awaited = NoOpen
  /\ messageTemplate \in Templates
  /\ defaultCountryCode = <<>>
  /\ storage = NoSnapshot
  /\ num = <<>>
  /\ formatted = <<>>
  /\ recipientName \in Names
  /\ rendered = <<>>
  /\ stepRef = step
  /\ saveTimer = TimerLatest

\* one rendering of the template for recipientName
Render ==
  /\ lastEvent = "init"
  /\ lastEvent' = "render"
  /\ rendered' = RenderMessage(messageTemplate, recipientName)
  /\ UNCHANGED <<step, contacts, currentContactIndex, attachment, delay, fetchPending,
                 isRunning, countdown, isWaitingForReturn, manualTriggerNeeded,
                 intervals, pendingShares, opened, pausedAt, awaited,
                 messageTemplate, defaultCountryCode, storage, num, formatted,
                 recipientName, stepRef, saveTimer>>

NextRender == Render

SpecRender == InitRender /\ [][NextRender]_vars

\* ---- states of the controller, read off the flags ----
Mounted == step = "running"
Dispatching ==
  Mounted /\ isRunning /\ ~isWaitingForReturn /\ ~manualTriggerNeeded /\ countdown = 0
WaitingForReturn == Mounted /\ isRunning /\ isWaitingForReturn
ManualTriggerNeeded == Mounted /\ isRunning /\ manualTriggerNeeded
Completed == step = "summary"

\* ---- claims ----

AllProcessed == \A i \in 1..Len(contacts) : contacts[i].status # "pending"

\* C1: a run started with start() from position -1 and driven only by
\* foreground signals and countdown completions reaches Completed, and then
\* every recipient of the queue has a status other than pending.
C1_RunCompletes ==
  (Mounted /\ isRunning /\ currentContactIndex = -1) ~> (Completed /\ AllProcessed)

\* C2: between pause() and the next start() the position does not change,
\* and the dispatch that start() causes targets the recipient at the
\* position that was current at the pause.
C2_PauseKeepsPosition ==
  [][pausedAt # NoPause =>
       /\ currentContactIndex' = currentContactIndex
       /\ (lastEvent' = "start" /\ opened' # NoOpen) =>
            (HasAt(contacts, pausedAt) /\ opened' = contacts[pausedAt + 1].id)]_vars

\* C3: after pause() no countdown tick is reported and no countdown
\* completion fires until the run is started again.
C3_PauseCancelsCountdown ==
  [][pausedAt # NoPause => lastEvent' \notin {"tick", "countdownComplete"}]_vars

\* C4: a foreground signal received in any state other than WaitingForReturn
\* with the running flag set changes no recipient, position, flag, countdown
\* or timer.
C4_ForegroundIgnored ==
  [][(lastEvent' = "foreground" /\ ~WaitingForReturn) => UNCHANGED progVars]_vars

\* C4 witness: a foreground signal has just been ignored by a paused runner
\* whose waiting flag is set
C4_Witness ==
  lastEvent = "foreground" /\ Mounted /\ ~isRunning /\ isWaitingForReturn

\* C5: a foreground signal in WaitingForReturn marks exactly the recipient at
\* the current position sent, clears the waiting flag and starts a countdown
\* at the configured delay.
C5_ForegroundMarksSent ==
  [][(lastEvent' = "foreground" /\ WaitingForReturn /\ HasAt(contacts, currentContactIndex)) =>
       /\ contacts' = [contacts EXCEPT ![currentContactIndex + 1].status = "sent"]
       /\ ~isWaitingForReturn'
       /\ countdown' = delay]_vars

\* C6: a share outcome that arrives after the controller has left
\* Dispatching changes no controller state.
C6_StaleOutcomeDiscarded ==
  [][(lastEvent' \in {"shareResolve", "shareReject"} /\ ~Dispatching) =>
       UNCHANGED <<step, contacts, currentContactIndex, isRunning, countdown,
                   isWaitingForReturn, manualTriggerNeeded>>]_vars

\* an automatic open was attempted in this step and neither opened a window
\* nor handed over to the share sheet
BlockedAttempt ==
  /\ opened' # NoOpen
  /\ lastEvent' # "manualOpen"
  /\ ~isWaitingForReturn'
  /\ pendingShares' = pendingShares

\* C7 as stated: every blocked or failed outcome, a rejected share included,
\* moves the controller from Dispatching to ManualTriggerNeeded.
C7_FailureNeverStops ==
  [][(BlockedAttempt \/ (lastEvent' = "shareReject" /\ Dispatching)) =>
       ManualTriggerNeeded']_vars

\* C7 amended: a blocked automatic open (popup suppressed, no share
\* capability, exception while opening) moves the controller to
\* ManualTriggerNeeded with the run still running; a rejected or cancelled
\* share clears the running flag and sets no manual flag.
C7_BlockedGoesManual ==
  [][/\ BlockedAttempt => ManualTriggerNeeded'
     /\ lastEvent' = "shareReject" =>
          (~isRunning' /\ manualTriggerNeeded' = manualTriggerNeeded /\ step' = step)]_vars

\* C7 witness: an automatic open has just been blocked
C7_Witness ==
  ManualTriggerNeeded /\ opened # NoOpen /\ lastEvent # "manualOpen"

\* C8: manualOpen() happens only in ManualTriggerNeeded; in every other
\* state it cannot be invoked, so it opens nothing and changes nothing.
C8_ManualOpenOnlyWhenNeeded ==
  [][lastEvent' = "manualOpen" => ManualTriggerNeeded]_vars

\* C8 witness: manualOpen() has just opened the current recipient
C8_Witness ==
  lastEvent = "manualOpen" /\ WaitingForReturn /\ opened # NoOpen

C10_PositionInRange ==
  /\ -1 <= currentContactIndex
  /\ currentContactIndex <= SelectedCount(contacts)

\* C11: every recipient a run opens belongs to the selected sequence; a
\* recipient with selected = FALSE is never dispatched to.
C11_SelectedOnly ==
  opened # NoOpen =>
    \E i \in 1..Len(contacts) : contacts[i].id = opened /\ contacts[i].selected

\* C12: start() with a non-empty queue and position < len(queue) invokes the
\* dispatcher for the current recipient, and from position -1 it first sets
\* the position to 0, so that the first recipient is dispatched.
C12_StartDispatches ==
  [][(/\ lastEvent' = "start"
      /\ SelectedCount(contacts) > 0
      /\ currentContactIndex < SelectedCount(contacts)) =>
       /\ currentContactIndex' = Max(0, currentContactIndex)
       /\ opened' = SelectedSeq(contacts)[currentContactIndex' + 1].id]_vars

\* C13: a status update changes the status of exactly the recipient with the
\* given id and keeps the order, and every status update of the runner,
\* automatic (foreground return) and manual (skip, mark sent), carries the id
\* of the current recipient.
C13_StatusById ==
  [][/\ (step = "manual" /\ lastEvent' \in {"skipped", "sent"}) =>
          LET cur == SelectedSeq(contacts)[currentContactIndex + 1]
          IN /\ Len(contacts') = Len(contacts)
             /\ \A i \in 1..Len(contacts) :
                  contacts'[i] = IF contacts[i].id = cur.id
                                 THEN [contacts[i] EXCEPT !.status = lastEvent']
                                 ELSE contacts[i]
     /\ (lastEvent' = "foreground" /\ WaitingForReturn
           /\ HasAt(contacts, currentContactIndex)) =>
          LET cur == contacts[currentContactIndex + 1]
          IN /\ RunnerStatusPayloadId(contacts, currentContactIndex) = cur.id
             /\ Len(contacts') = Len(contacts)
             /\ \A i \in 1..Len(contacts) :
                  contacts'[i] = IF contacts[i].id = cur.id
                                 THEN [contacts[i] EXCEPT !.status = "sent"]
                                 ELSE contacts[i]]_vars

\* C14 as stated, for a number that has digits: without a country code the
\* digits are returned; with one, digits that do not start with it lose one
\* leading 0 and get the code in front; digits that start with it and are
\* more than 10 digits longer than it are returned unchanged.
C14_AsStated ==
  (lastEvent = "format" /\ Clean(num) # <<>>) =>
    LET d == Clean(num)
        cc == defaultCountryCode
    IN /\ cc = <<>> => formatted = d
       /\ (cc # <<>> /\ ~StartsWith(d, cc)) =>
            formatted = cc \o (IF Head(d) = "0" THEN Tail(d) ELSE d)
       /\ (cc # <<>> /\ StartsWith(d, cc) /\ Len(d) - Len(cc) > 10) => formatted = d

\* C14 amended: no digits give the empty string; without a country code the
\* digits are returned; with one, a leading 0 is removed first, and what is
\* left gets the code in front when it does not start with the code and is
\* returned as it is when it starts with the code and is longer than 10 digits.
C14_ZeroFirst ==
  lastEvent = "format" =>
    LET d == Clean(num)
        cc == defaultCountryCode
        z == IF d # <<>> /\ Head(d) = "0" THEN Tail(d) ELSE d
    IN /\ d = <<>> => formatted = <<>>
       /\ (d # <<>> /\ cc = <<>>) => formatted = d
       /\ (d # <<>> /\ cc # <<>> /\ ~StartsWith(z, cc)) => formatted = cc \o z
       /\ (d # <<>> /\ cc # <<>> /\ StartsWith(z, cc) /\ Len(z) > 10) => formatted = z

\* C14 witness: a number with a leading 0 in front of the country code came
\* back without the 0 and without a second code
C14_Witness ==
  /\ lastEvent = "format"
  /\ defaultCountryCode # <<>>
  /\ StartsWith(Clean(num), <<"0">> \o defaultCountryCode)
  /\ formatted = Tail(Clean(num))

\* C15 as stated: for digits that start with the country code, the code is
\* put in front when what follows the code is at most 10 digits long, and
\* the digits are returned unmodified otherwise.
C15_RemainingLength ==
  (lastEvent = "format" /\ defaultCountryCode # <<>>
     /\ StartsWith(Clean(num), defaultCountryCode)) =>
    formatted = IF Len(Clean(num)) - Len(defaultCountryCode) <= 10
                THEN defaultCountryCode \o Clean(num)
                ELSE Clean(num)

\* C15 amended: for digits that start with the country code, the code is put
\* in front when the digits, code included, are at most 10 long, and the
\* digits are returned unmodified otherwise.
C15_WholeLength ==
  (lastEvent = "format" /\ defaultCountryCode # <<>>
     /\ StartsWith(Clean(num), defaultCountryCode)) =>
    formatted = IF Len(Clean(num)) <= 10
                THEN defaultCountryCode \o Clean(num)
                ELSE Clean(num)

\* C15 witness: digits that start with the code, with at most 10 digits after
\* it and more than 10 in all, came back unmodified
C15_Witness ==
  /\ lastEvent = "format"
  /\ defaultCountryCode # <<>>
  /\ StartsWith(Clean(num), defaultCountryCode)
  /\ Len(Clean(num)) > 10
  /\ Len(Clean(num)) - Len(defaultCountryCode) <= 10
  /\ formatted = Clean(num)

\* C16: with the remaining time in tenths of a second, every tick of a
\* countdown reports a value that is not negative and not above the one
\* before, and the completion fires at the first tick at which the remaining
\* time is <= 0, after which the countdown is gone.
C16_Countdown ==
  [][lastEvent' \in {"tick", "countdownComplete"} =>
       \E i \in 1..Len(intervals) :
         LET iv == intervals[i]
             remaining == iv.timer - 1
         IN /\ iv.timer > 0
            /\ (lastEvent' = "countdownComplete") <=> (remaining <= 0)
            /\ lastEvent' = "countdownComplete" => intervals' = RemoveAt(intervals, i)
            /\ lastEvent' = "tick" => intervals' = [intervals EXCEPT ![i].timer = remaining]
            /\ (lastEvent' = "tick" /\ ~iv.orphan) =>
                 (countdown' = remaining /\ countdown' >= 0 /\ countdown' <= iv.timer)]_vars

\* C17: the snapshot holds neither the attachment nor the loading flag; a
\* load right after a save gives back the recipients (id, name, address,
\* status, selected), the message template and the delay; after a load the
\* attachment is null.
C17_RoundTrip ==
  [][/\ lastEvent' = "save" =>
          \A i \in 1..Len(storage') : storage'[i][1] \notin {"attachment", "isLoadingContacts"}
     /\ (lastEvent = "save" /\ lastEvent' = "reload") =>
          (contacts' = contacts /\ messageTemplate' = messageTemplate /\ delay' = delay)
     /\ lastEvent' = "reload" => attachment' = "none"]_vars

\* C17 witness: a state with a processed recipient, an edited template, a
\* changed delay and an attachment was saved and loaded
C17_Witness ==
  /\ lastEvent = "reload"
  /\ storage # NoSnapshot
  /\ Len(contacts) > 0
  /\ contacts[1].status = "sent"
  /\ contacts[1].selected
  /\ messageTemplate # InitialMessage
  /\ delay # InitialDelay
  /\ attachment = "none"

\* C18: in manual mode skip() and markSent() give the current recipient, and
\* only it, the status skipped resp. sent, then advance the position by one
\* when position + 1 < len(selectedSequence) and complete the run otherwise;
\* the position changes in manual mode through these two and jumpTo only.
C18_ManualAdvance ==
  [][step = "manual" =>
       /\ lastEvent' \in {"skipped", "sent"} =>
            /\ HasCurrentManual
            /\ contacts' = [i \in 1..Len(contacts) |->
                              IF contacts[i].id = SelectedSeq(contacts)[currentContactIndex + 1].id
                              THEN [contacts[i] EXCEPT !.status = lastEvent']
                              ELSE contacts[i]]
            /\ IF currentContactIndex + 1 < SelectedCount(contacts)
               THEN currentContactIndex' = currentContactIndex + 1 /\ step' = "manual"
               ELSE currentContactIndex' = currentContactIndex /\ step' = "summary"
       /\ currentContactIndex' # currentContactIndex =>
            lastEvent' \in {"skipped", "sent", "jumpTo"}]_vars

C20_DelayReadAtStart ==
  [][/\ lastEvent' \in {"delayMinus", "delayPlus"} =>
          (intervals' = intervals /\ countdown' = countdown)
     /\ (lastEvent' = "foreground" /\ Len(intervals') > Len(intervals)) =>
          (intervals'[Len(intervals')].timer = delay /\ countdown' = delay)]_vars

\* C20 witness: the delay was lowered below the remaining time of a running
\* countdown
C20_Witness ==
  /\ lastEvent = "delayMinus"
  /\ Mounted
  /\ Len(intervals) > 0
  /\ ~intervals[1].orphan
  /\ intervals[1].timer > delay
  /\ countdown = intervals[1].timer

\* C21: a timer callback of a run that has been left or reset advances no
\* position and changes no step.
C21_StaleTimerDiscarded ==
  [][(/\ lastEvent' \in {"tick", "countdownComplete"}
      /\ Len(intervals) > 0
      /\ \A i \in 1..Len(intervals) : intervals[i].orphan) =>
       (currentContactIndex' = currentContactIndex /\ step' = step)]_vars

\* C22: after a recipient list has been imported or cleared and after a
\* reset, the position is -1 and the running, waiting and manual flags and
\* the countdown have their initial values.
C22_NewQueueResets ==
  [][lastEvent' \in {"import", "clear", "reset"} =>
       /\ currentContactIndex' = -1
       /\ ~isRunning' /\ ~isWaitingForReturn' /\ ~manualTriggerNeeded'
       /\ countdown' = 0]_vars

C24_RenderSubstitutes ==
  [][lastEvent' = "render" =>
       /\ rendered' = Substitute(messageTemplate, recipientName)
       /\ UNCHANGED <<messageTemplate, recipientName, progVars>>]_vars

\* C25: at most one countdown is live at any time.
C25_OneCountdown ==
  Len(intervals) <= 1

\* C26: the waiting flag, the manual flag and a countdown above 0 each imply
\* the running flag, and no two of the three hold together.
C26_FlagCombination ==
  /\ isWaitingForReturn => isRunning
  /\ manualTriggerNeeded => isRunning
  /\ countdown > 0 => isRunning
  /\ ~(isWaitingForReturn /\ manualTriggerNeeded)
  /\ ~(isWaitingForReturn /\ countdown > 0)
  /\ ~(manualTriggerNeeded /\ countdown > 0)

\* C27: in a run that is never paused an open is attempted only by start(),
\* by the advance to the next position and by manualOpen(): between the
\* foreground-return for a position and the advance no second open is made.
C27_OncePerPosition ==
  [][opened' # NoOpen => lastEvent' \in {"start", "countdownComplete", "manualOpen"}]_vars

C29_ManualOpen ==
  [][/\ (lastEvent' = "manualOpen" /\ ManualTriggerNeeded
           /\ HasAt(contacts, currentContactIndex)) =>
          /\ ~manualTriggerNeeded'
          /\ opened' = contacts[currentContactIndex + 1].id
          /\ isWaitingForReturn'
          /\ isRunning'
          /\ currentContactIndex' = currentContactIndex
          /\ contacts' = contacts
     /\ (lastEvent = "manualOpen" /\ lastEvent' = "foreground" /\ WaitingForReturn
           /\ HasAt(contacts, currentContactIndex)) =>
          /\ contacts'[currentContactIndex + 1].status = "sent"
          /\ countdown' = delay]_vars

\* C30: in ManualTriggerNeeded the controller keeps its state and position
\* and attempts no open until manualOpen() or pause() (or the user leaves the
\* runner): no timer and no foreground signal moves it on.
C30_StaysInManual ==
  [][(ManualTriggerNeeded /\ lastEvent' \notin {"manualOpen", "pause", "back"}) =>
       /\ ManualTriggerNeeded'
       /\ currentContactIndex' = currentContactIndex
       /\ opened' = NoOpen]_vars

\* C31: with an attachment and no share capability, an automatic open attempt
\* sets the manual flag and opens nothing: the waiting flag is not set, no
\* recipient is awaited and no share is started.
C31_NoShareBlocked ==
  [][(attachment = "unshareable" /\ opened' # NoOpen /\ lastEvent' # "manualOpen") =>
       /\ manualTriggerNeeded'
       /\ ~isWaitingForReturn'
       /\ awaited' = NoOpen
       /\ pendingShares' = pendingShares]_vars

\* C31 witness: start() has made an attempt with an attachment that cannot be
\* shared, and the manual trigger is asked for
C31_Witness ==
  /\ attachment = "unshareable"
  /\ lastEvent = "start"
  /\ opened # NoOpen
  /\ ManualTriggerNeeded

\* C32: manual mode is never shown with a position >= 0 that is >= the number
\* of selected recipients, nor with position -1 and a selected recipient:
\* entering it in the first case ends in the summary step, in the second
\* case at position 0.
C32_ManualEffects ==
  [][LET len == SelectedCount(contacts)
         lenN == SelectedCount(contacts')
     IN /\ step' = "manual" =>
             /\ ~(currentContactIndex' >= 0 /\ currentContactIndex' >= lenN)
             /\ ~(currentContactIndex' = -1 /\ lenN > 0)
        /\ (lastEvent' = "goManual" /\ currentContactIndex >= 0
              /\ currentContactIndex >= len) => step' = "summary"
        /\ (lastEvent' = "goManual" /\ currentContactIndex = -1 /\ len > 0) =>
             (step' = "manual" /\ currentContactIndex' = 0)]_vars

\* C32 witness: manual mode was entered at a position left behind by a longer
\* selection and has redirected to the summary
C32_Witness ==
  /\ lastEvent = "goManual"
  /\ step = "summary"
  /\ currentContactIndex >= 0
  /\ currentContactIndex >= SelectedCount(contacts)

\* the shortest number fetchContacts takes for a recipient has more digits
MinRecipientDigits == 6

\* C33: for the number of a recipient (more than 6 digits) and a country
\* code, the address the runner puts into the URL and the address manual
\* mode puts into it are both the one getFormattedNumber of utils/phoneUtils
\* returns.
C33_SameAddress ==
  (lastEvent = "format" /\ Len(Clean(num)) > MinRecipientDigits) =>
    /\ RunnerAddress(num) = formatted
    /\ SessionAddress(num, defaultCountryCode) = formatted

\* C34: a runner that has just been mounted, from the compose screen, by
\* 'Restart Same List' or by a restart of the application at the running
\* step, is paused with its initial flags and has opened nobody; and a
\* runner that is neither running nor asking for the manual trigger opens a
\* recipient only through start().
C34_MountedPaused ==
  [][/\ (step' = "running" /\ (step # "running" \/ lastEvent' = "reload")) =>
          /\ ~isRunning' /\ ~isWaitingForReturn' /\ ~manualTriggerNeeded'
          /\ countdown' = 0
          /\ opened' = NoOpen
     /\ (~isRunning /\ ~manualTriggerNeeded /\ opened' # NoOpen) =>
          lastEvent' = "start"]_vars

\* C34 witness: the application was restarted at the running step at the
\* position of a recipient
C34_Witness ==
  /\ lastEvent = "reload"
  /\ step = "running"
  /\ HasAt(contacts, currentContactIndex)
  /\ ~isRunning

\* C35: the hardware back button and the header back button make the same
\* step transition from the step that is current: compose -> input,
\* summary -> input, running or manual -> compose when the user confirms and
\* no change when the user declines, no change on input.
C35_BackButtons ==
  [][/\ lastEvent' \in {"back", "hardwareBack"} =>
          step' = (IF step = "compose" THEN "input"
                   ELSE IF step \in {"running", "manual"} THEN "compose"
                   ELSE IF step = "summary" THEN "input"
                   ELSE step)
     /\ lastEvent' = "hardwareBackDeclined" =>
          (step \in {"running", "manual"} /\ step' = step)]_vars

\* C35 witness: the hardware button has taken a session back to the editor
C35_Witness ==
  /\ lastEvent = "hardwareBack"
  /\ step = "compose"
  /\ currentContactIndex >= 0

\* C36: the import that completes after the application was started keeps
\* every recipient that was restored, with its status and selected flag, at
\* its place in the list, and keeps the position.
C36_RestoredSurvive ==
  [][lastEvent' = "import" =>
       /\ \A i \in 1..Len(contacts) :
            /\ i <= Len(contacts')
            /\ contacts'[i].id = contacts[i].id
            /\ contacts'[i].status = contacts[i].status
            /\ contacts'[i].selected = contacts[i].selected
       /\ currentContactIndex' = currentContactIndex]_vars

C38_DelayGrid ==
  delay % 5 = 0 /\ delay >= 5

\* C38 witness: '-' was pressed and the delay is at 0.5 s
C38_Witness ==
  lastEvent = "delayMinus" /\ delay = 5

\* C39: on the summary a completed run ends in, the 'Sent' count is the
\* number of selected recipients with status sent, the 'Failed/Skip' count
\* the number of selected recipients with status failed or skipped, and the
\* two add up to the number of selected recipients.
C39_SummaryCounts ==
  (step = "summary" /\ lastEvent \in {"sent", "skipped", "countdownComplete"}) =>
    LET queue == SelectedSeq(contacts)
    IN /\ SummarySent(contacts)
            = Cardinality({i \in 1..Len(queue) : queue[i].status = "sent"})
       /\ SummaryFailedSkip(contacts)
            = Cardinality({i \in 1..Len(queue) : queue[i].status \in {"failed", "skipped"}})
       /\ SummarySent(contacts) + SummaryFailedSkip(contacts) = Len(queue)

====
